---- MODULE Spec2Model ----
(***************************************************************************)
(* Double DQN agent and training driver of cartPole_double_dqn.py.         *)
(*                                                                         *)
(* Numbers are fixed point.  epsilon is held in units of 1e-9 (1.0 is      *)
(* 1000000000).  Action values, rewards stored in a regression target and  *)
(* the learning rate are held in units of 1e-5 (1.0 is 100000), so that    *)
(* gamma = 0.99 and learning_rate = 0.001 are exact: every action value is *)
(* a multiple of learning_rate = 100 units.                                *)
(*                                                                         *)
(* A model (nn.Sequential) is a table  observation -> action -> value over *)
(* the finite set States of observations; its parameters are the entries.  *)
(* replay builds a new Adam optimizer for every transition, so every       *)
(* optimizer.step() is a first Adam step: a parameter with gradient g      *)
(* moves by learning_rate * g / (|g| + 1e-8), that is by learning_rate     *)
(* against the sign of g, and a parameter with zero gradient stays.        *)
(***************************************************************************)
EXTENDS Integers, Sequences, FiniteSets, TLC

VARIABLES
    memory, epsilon, eval_model, target_model,
    call, inserted, ndecay, decay_pow, synced,
    pc, e, state, total_reward, done, truncated, rewards_per_episode,
    is_training, steps, sync_eps, replay_eps, truncated_on

agentVars == <<memory, epsilon, eval_model, target_model>>
obsVars == <<call, inserted, ndecay, decay_pow, synced>>
runVars == <<pc, e, state, total_reward, done, truncated, rewards_per_episode,
             is_training, steps, sync_eps, replay_eps, truncated_on>>
vars == <<memory, epsilon, eval_model, target_model,
          call, inserted, ndecay, decay_pow, synced,
          pc, e, state, total_reward, done, truncated, rewards_per_episode,
          is_training, steps, sync_eps, replay_eps, truncated_on>>

----------------------------------------------------------------------------
\* Hyperparameters of DoubleDQNAgent.__init__ and constants of run_ddqn.
gamma == 99
epsilon_init == 1000000000
epsilon_min == 10000000
epsilon_decay == 995
learning_rate == 100
action_size == 2
terminal_reward == -10
solved_mean == 195

\* Sizes the source fixes at maxlen=2000, batch_size=32, episodes=1000, a
\* window of 100 returns and a synchronisation every 10 episodes; the model
\* takes small values of them.
maxlen == 3
batch_size == 2
episodes == 4
window == 2
sync_every == 2

\* Bounds of the exploration.
MaxInserts == 5
MaxReplays == 2
MaxDecays == 1000
MaxSteps == 2

States == {0, 1}
Actions == 0 .. (action_size - 1)

\* A freshly built model: the initial parameters are drawn at random.
InitModels ==
    { [s \in States |-> [a \in Actions |-> 0]],
      [s \in States |-> [a \in Actions |-> IF s = 1 /\ a = 1 THEN learning_rate ELSE 0]] }

\* Arguments remember is called with.
RememberInputs ==
    { [state |-> 0, action |-> 0, reward |-> 1, next_state |-> 1, done |-> FALSE],
      [state |-> 1, action |-> 1, reward |-> terminal_reward, next_state |-> 0, done |-> TRUE] }

\* Values of np.random.rand(), in units of 1e-9.
RandDraws == {995000000, 999999999}

----------------------------------------------------------------------------
\* torch.argmax: the first index holding the maximal value.
Argmax(v) ==
    CHOOSE a \in DOMAIN v :
        /\ \A b \in DOMAIN v : v[b] <= v[a]
        /\ \A b \in DOMAIN v : v[b] = v[a] => a <= b

\* model(state): the action values of an observation.
Forward(model, s) == model[s]

\* A reward as stored in the float target tensor (units of 1e-5).
Scale(r) == r * 100000

\* gamma * q.
Discount(q) == (gamma * q) \div 100

\* load_state_dict(state_dict()): a copy of every parameter.
LoadStateDict(src) == [s \in States |-> [a \in Actions |-> src[s][a]]]

\* A full store that keeps what it holds and drops the new element.
DequeAppendKeepOldest(q, x) ==
    IF Len(q) >= maxlen THEN q ELSE Append(q, x)

\* deque(maxlen).append
DequeAppend(q, x) ==
    IF Len(q) >= maxlen THEN Append(Tail(q), x) ELSE Append(q, x)

\* The target model's own best action.
NextActionOfTarget(ev, tg, next_state) == Argmax(Forward(tg, next_state))

\* The index replay evaluates the target model at.
NextAction(ev, tg, next_state) == Argmax(Forward(ev, next_state))

\* A target that bootstraps from next_state whatever done is.
TdTargetAlwaysBootstraps(ev, tg, tr) ==
    LET target == Forward(ev, tr.state)
        next_action == Argmax(Forward(ev, tr.next_state))
    IN  [target EXCEPT ![tr.action] =
            Scale(tr.reward) + Discount(Forward(tg, tr.next_state)[next_action])]

\* The regression target of one transition (lines 57-62).
TdTarget(ev, tg, tr) ==
    LET target == Forward(ev, tr.state) IN
    IF tr.done
    THEN [target EXCEPT ![tr.action] = Scale(tr.reward)]
    ELSE LET next_action == NextAction(ev, tg, tr.next_state) IN
         [target EXCEPT ![tr.action] =
             Scale(tr.reward) + Discount(Forward(tg, tr.next_state)[next_action])]

Sign(x) == IF x > 0 THEN 1 ELSE IF x < 0 THEN -1 ELSE 0

\* zero_grad, MSELoss, backward and one step of a new Adam optimizer
\* (lines 63-68) on the online model.
AdamStep(ev, s, target) ==
    [ev EXCEPT ![s] =
        [a \in Actions |-> ev[s][a] - learning_rate * Sign(ev[s][a] - target[a])]]

\* A batched replay: every target is computed with the online model the call
\* started with.
RECURSIVE ReplayLoopStale(_, _, _, _, _)
ReplayLoopStale(ev0, ev, tg, minibatch, i) ==
    IF i > Len(minibatch)
    THEN [model |-> ev, log |-> <<>>]
    ELSE LET tr == minibatch[i]
             target == TdTarget(ev0, tg, tr)
             rest == ReplayLoopStale(ev0, AdamStep(ev, tr.state, target), tg, minibatch, i + 1)
         IN  [model |-> rest.model,
              log |-> <<[tr |-> tr, before |-> ev0, target |-> target]>> \o rest.log]

ReplayLoopBatched(ev, tg, minibatch, i) == ReplayLoopStale(ev, ev, tg, minibatch, i)

\* The for loop of replay over the minibatch, from its i-th transition on.
\* log records, per transition, the online model its target was computed with.
RECURSIVE ReplayLoop(_, _, _, _)
ReplayFrom(ev, tg, minibatch, i) ==
    IF i > Len(minibatch)
    THEN [model |-> ev, log |-> <<>>]
    ELSE LET tr == minibatch[i]
             target == TdTarget(ev, tg, tr)
             rest == ReplayLoop(AdamStep(ev, tr.state, target), tg, minibatch, i + 1)
         IN  [model |-> rest.model,
              log |-> <<[tr |-> tr, before |-> ev, target |-> target]>> \o rest.log]

\* ReplayFrom with the online model it starts from held as a value.
ReplayLoop(ev, tg, minibatch, i) ==
    CHOOSE res \in { ReplayFrom(w, tg, minibatch, i) : w \in {ev} } : TRUE

\* Two names for one model: training the online model trains the target.
TargetAfterReplayAliased(ev, tg) == ev

\* What replay leaves in the target model.
TargetAfterReplay(ev, tg) == tg

\* x * epsilon_decay, rounded down, without leaving 32 bits.
MulDecay(x) ==
    (x \div 1000) * epsilon_decay + ((x % 1000) * epsilon_decay) \div 1000

\* Lines 69-70.
Decay(eps) == IF eps > epsilon_min THEN MulDecay(eps) ELSE eps

\* replay without its length check.
DeferredNever(n, bs) == FALSE

\* Line 51.
Deferred(n, bs) == n < bs

\* random.sample(population, k): k positions, all different, in any order.
Samples(n, k) ==
    { s \in [1 .. k -> 1 .. n] : \A i, j \in 1 .. k : i # j => s[i] # s[j] }

\* act with its comparison turned round.
ActResultFlipped(ev, eps, s, r, rnd) ==
    IF r > eps THEN rnd ELSE Argmax(Forward(ev, s))

\* Lines 44-48.
ActResult(ev, eps, s, r, rnd) ==
    IF r <= eps THEN rnd ELSE Argmax(Forward(ev, s))

----------------------------------------------------------------------------
\* The state after DoubleDQNAgent.__init__, before any call.
InitAgent ==
    /\ memory = <<>>
    /\ epsilon = epsilon_init
    /\ eval_model \in InitModels
    /\ target_model = LoadStateDict(eval_model)

InitObs ==
    /\ call = [op |-> "init"]
    /\ inserted = <<>>
    /\ ndecay = 0
    /\ decay_pow = epsilon_init
    /\ synced = eval_model

InitDriver(training) ==
    /\ pc = "reset"
    /\ e = 0
    /\ state = 0
    /\ total_reward = 0
    /\ done = FALSE
    /\ truncated = FALSE
    /\ rewards_per_episode = <<>>
    /\ is_training \in training
    /\ steps = 0
    /\ sync_eps = {}
    /\ replay_eps = {}
    /\ truncated_on = FALSE

Init == InitAgent /\ InitObs /\ InitDriver({TRUE})

\* The agent's operations, on the agent's own state.
AgentRemember(tr) ==
    /\ memory' = DequeAppend(memory, tr)
    /\ UNCHANGED <<epsilon, eval_model, target_model>>

AgentUpdateTargetModel ==
    /\ target_model' = LoadStateDict(eval_model)
    /\ UNCHANGED <<memory, epsilon, eval_model>>

\* The minibatch of a sample smp of positions of memory.
Minibatch(smp) == [i \in DOMAIN smp |-> memory[smp[i]]]

\* The agent's state, as the harness records it before a call.
AgentState ==
    [memory |-> memory, epsilon |-> epsilon,
     eval_model |-> eval_model, target_model |-> target_model]

\* replay with the sample drawn being the positions smp of memory.
AgentReplayLearn(smp) ==
    LET res == ReplayLoop(eval_model, target_model, Minibatch(smp), 1)
    IN  /\ eval_model' = res.model
        /\ target_model' = TargetAfterReplay(res.model, target_model)
        /\ epsilon' = Decay(epsilon)
        /\ UNCHANGED memory

----------------------------------------------------------------------------
\* The agent called in any order.
Remember(trs) ==
    \E tr \in trs :
        /\ Len(inserted) < MaxInserts
        /\ AgentRemember(tr)
        /\ inserted' = Append(inserted, tr)
        /\ call' = [op |-> "remember"]
        /\ UNCHANGED <<ndecay, decay_pow, synced>>

Act ==
    \E s \in States, r \in RandDraws, rnd \in Actions :
        /\ call' = [op |-> "act", state |-> s, r |-> r,
                    ret |-> ActResult(eval_model, epsilon, s, r, rnd),
                    before |-> AgentState]
        /\ UNCHANGED agentVars
        /\ UNCHANGED <<inserted, ndecay, decay_pow, synced>>

UpdateTargetModel ==
    /\ AgentUpdateTargetModel
    /\ synced' = eval_model
    /\ call' = [op |-> "update_target_model"]
    /\ UNCHANGED <<inserted, ndecay, decay_pow>>

Replay(bs, cap) ==
    IF Deferred(Len(memory), bs)
    THEN /\ call' = [op |-> "replay", deferred |-> TRUE, error |-> FALSE,
                     before |-> AgentState]
         /\ UNCHANGED agentVars
         /\ UNCHANGED <<inserted, ndecay, decay_pow, synced>>
    ELSE IF bs > Len(memory)
    THEN \* random.sample raises ValueError
         /\ call' = [op |-> "replay", deferred |-> FALSE, error |-> TRUE,
                     before |-> AgentState]
         /\ UNCHANGED agentVars
         /\ UNCHANGED <<inserted, ndecay, decay_pow, synced>>
    ELSE \E smp \in Samples(Len(memory), bs) :
         /\ ndecay < cap
         /\ AgentReplayLearn(smp)
         /\ call' = [op |-> "replay", deferred |-> FALSE, error |-> FALSE,
                     before |-> AgentState,
                     sample |-> smp,
                     log |-> ReplayLoop(eval_model, target_model,
                                        Minibatch(smp), 1).log]
         /\ ndecay' = ndecay + 1
         /\ decay_pow' = MulDecay(decay_pow)
         /\ UNCHANGED <<inserted, synced>>

Next ==
    \/ Remember(RememberInputs) /\ UNCHANGED runVars
    \/ Act /\ UNCHANGED runVars
    \/ Replay(batch_size, MaxReplays) /\ UNCHANGED runVars
    \/ UpdateTargetModel /\ UNCHANGED runVars

Spec == Init /\ [][Next]_vars

----------------------------------------------------------------------------
\* The agent fed terminal transitions only, and replayed until epsilon has
\* stopped decaying.
DecayInputs == { tr \in RememberInputs : tr.done }

NextDecay ==
    \/ Remember(DecayInputs) /\ UNCHANGED runVars
    \/ Replay(batch_size, MaxDecays) /\ UNCHANGED runVars

SpecDecay == Init /\ [][NextDecay]_vars

----------------------------------------------------------------------------
\* run_ddqn.  The environment is outside the program: reset and step return
\* an observation of EnvObs and step a reward of EnvRewards and any done and
\* truncated flags; an episode receives done = true by its MaxSteps-th step.
EnvObs == {0}
EnvRewards == {400}

\* rewards_per_episode[-100:]
LastReturns(rs) ==
    IF Len(rs) <= window THEN rs ELSE SubSeq(rs, Len(rs) - window + 1, Len(rs))

RECURSIVE SeqSum(_)
SeqSum(rs) == IF rs = <<>> THEN 0 ELSE Head(rs) + SeqSum(Tail(rs))

\* The last return alone, instead of the mean of the window.
SolvedLastOnly(rs) == rs[Len(rs)] > solved_mean

\* np.mean(rewards_per_episode[-100:]) > 195
Solved(rs) ==
    SeqSum(LastReturns(rs)) > solved_mean * Len(LastReturns(rs))

\* A synchronisation at the end of every episode.
SyncDueAlways(ep) == TRUE

\* Line 104.
SyncDue(ep) == ep % sync_every = 0

\* Line 92.
StoredReward(reward, d) == IF d THEN terminal_reward ELSE reward

\* What ends the while loop of an episode (lines 89 and 96).
EpisodeOver(d, t) == d

InitRun == InitAgent /\ InitObs /\ InitDriver(BOOLEAN)

\* Line 86-88: the head of the for loop.
RunReset ==
    /\ pc = "reset"
    /\ \E s \in EnvObs : state' = s
    /\ total_reward' = 0
    /\ done' = FALSE
    /\ steps' = 0
    /\ pc' = "step"
    /\ UNCHANGED agentVars
    /\ UNCHANGED <<e, truncated, rewards_per_episode, is_training, sync_eps,
                   replay_eps, truncated_on>>

\* Lines 89-101: one pass of the while loop.
RunStep ==
    /\ pc = "step"
    /\ \E r \in RandDraws, rnd \in Actions, ns \in EnvObs,
          rew \in EnvRewards, d \in BOOLEAN, t \in BOOLEAN :
          LET action == ActResult(eval_model, epsilon, state, r, rnd)
              reward == StoredReward(rew, d)
          IN  /\ steps + 1 >= MaxSteps => d
              /\ AgentRemember([state |-> state, action |-> action, reward |-> reward,
                                next_state |-> ns, done |-> d])
              /\ state' = ns
              /\ total_reward' = total_reward + reward
              /\ done' = d
              /\ truncated' = t
              /\ steps' = steps + 1
              /\ truncated_on' = (truncated_on \/ (t /\ ~d))
              /\ IF EpisodeOver(d, t)
                 THEN /\ rewards_per_episode' =
                             Append(rewards_per_episode, total_reward + reward)
                      /\ pc' = "replay"
                 ELSE /\ UNCHANGED rewards_per_episode
                      /\ pc' = "step"
    /\ UNCHANGED <<e, is_training, sync_eps, replay_eps>>

\* Lines 102-103.
RunReplay ==
    /\ pc = "replay"
    /\ IF is_training
       THEN /\ IF Deferred(Len(memory), batch_size)
               THEN UNCHANGED agentVars
               ELSE \E smp \in Samples(Len(memory), batch_size) : AgentReplayLearn(smp)
            /\ replay_eps' = replay_eps \cup {e}
       ELSE UNCHANGED <<memory, epsilon, eval_model, target_model, replay_eps>>
    /\ pc' = "sync"
    /\ UNCHANGED <<e, state, total_reward, done, truncated, rewards_per_episode,
                   is_training, steps, sync_eps, truncated_on>>

\* Lines 104-105.
RunSync ==
    /\ pc = "sync"
    /\ IF SyncDue(e)
       THEN AgentUpdateTargetModel /\ sync_eps' = sync_eps \cup {e}
       ELSE UNCHANGED <<memory, epsilon, eval_model, target_model, sync_eps>>
    /\ pc' = "check"
    /\ UNCHANGED <<e, state, total_reward, done, truncated, rewards_per_episode,
                   is_training, steps, replay_eps, truncated_on>>

\* Lines 106-108 and the step of the for loop.
RunCheck ==
    /\ pc = "check"
    /\ IF Solved(rewards_per_episode)
       THEN pc' = "done" /\ UNCHANGED e
       ELSE IF e + 1 < episodes
       THEN pc' = "reset" /\ e' = e + 1
       ELSE pc' = "done" /\ UNCHANGED e
    /\ UNCHANGED agentVars
    /\ UNCHANGED <<state, total_reward, done, truncated, rewards_per_episode,
                   is_training, steps, sync_eps, replay_eps, truncated_on>>

NextRun ==
    \/ RunReset /\ UNCHANGED obsVars
    \/ RunStep /\ UNCHANGED obsVars
    \/ RunReplay /\ UNCHANGED obsVars
    \/ RunSync /\ UNCHANGED obsVars
    \/ RunCheck /\ UNCHANGED obsVars

SpecRun == InitRun /\ [][NextRun]_vars

\* The driver runs on: no step of it waits for anything.
FairSpecRun == SpecRun /\ WF_vars(NextRun)

----------------------------------------------------------------------------
\* Helpers of the properties, stated without the operators of the model.

\* a is the lowest index of a maximal entry of v.
IsFirstMax(v, a) ==
    /\ a \in DOMAIN v
    /\ \A b \in DOMAIN v : v[b] <= v[a]
    /\ \A b \in DOMAIN v : b < a => v[b] < v[a]

MaxOf(v) == CHOOSE m \in { v[a] : a \in DOMAIN v } : \A b \in DOMAIN v : v[b] <= m

\* The last n elements of a sequence.
LastN(q, n) == IF Len(q) <= n THEN q ELSE SubSeq(q, Len(q) - n + 1, Len(q))

Learned == call.op = "replay" /\ ~call.deferred /\ ~call.error

\* C1: the target model's weights are the online model's weights as of the
\* most recent update_target_model (the constructor's included); replay leaves
\* the target model as it found it, and right after update_target_model the
\* two models give the same output for every input.
C1_TargetIsSnapshot ==
    /\ target_model = synced
    /\ Learned => target_model = call.before.target_model
    /\ call.op = "update_target_model" =>
           \A s \in States : Forward(target_model, s) = Forward(eval_model, s)

\* A replay has moved the online model away from a target model that an
\* update_target_model after an earlier replay had set.
C1_Witness ==
    /\ Learned
    /\ ndecay >= 2
    /\ target_model \notin InitModels
    /\ eval_model # target_model

\* C2: for a sampled transition with done = false, the target at index action
\* is reward + gamma * Q_target(next_state)[a*] with a* the first maximal index
\* of the ONLINE model at next_state; when the models disagree on the best
\* action (a* is not a maximal action of the target model), this is not
\* reward + gamma * max Q_target(next_state).
C2_DoubleEstimation ==
    Learned =>
        \A i \in DOMAIN call.log :
            LET en == call.log[i]
                qe == en.before[en.tr.next_state]
                qt == call.before.target_model[en.tr.next_state]
            IN  ~en.tr.done =>
                    \A a \in Actions :
                        IsFirstMax(qe, a) =>
                            /\ en.target[en.tr.action] =
                                   en.tr.reward * 100000 + (gamma * qt[a]) \div 100
                            /\ qt[a] < MaxOf(qt) =>
                                   en.target[en.tr.action] #
                                       en.tr.reward * 100000 + (gamma * MaxOf(qt)) \div 100

\* A non-terminal transition was replayed while the two models disagreed on
\* the best action at its next_state.
C2_Witness ==
    /\ Learned
    /\ \E i \in DOMAIN call.log :
           LET en == call.log[i]
               qe == en.before[en.tr.next_state]
               qt == call.before.target_model[en.tr.next_state]
           IN  /\ ~en.tr.done
               /\ \E a \in Actions : IsFirstMax(qe, a) /\ qt[a] < MaxOf(qt)

\* C4: the store never holds more than maxlen transitions, and it holds the
\* last maxlen transitions inserted, in insertion order: after maxlen + k
\* insertions none of the first k.
C4_StoreIsLastInserted ==
    /\ Len(memory) <= maxlen
    /\ memory = LastN(inserted, maxlen)
    /\ Len(inserted) > maxlen =>
           /\ Len(memory) = maxlen
           /\ \A i \in 1 .. maxlen :
                  memory[i] = inserted[Len(inserted) - maxlen + i]

\* More transitions were inserted than the store holds, and the evicted one
\* differs from the one that took the head.
C4_Witness ==
    /\ Len(inserted) > maxlen
    /\ inserted[1] # memory[1]
    /\ memory[Len(memory)] # memory[1]

\* C5: replay with fewer than batch_size stored transitions raises nothing and
\* changes nothing; sampling is never attempted with too few, and a replay
\* that learns samples batch_size different positions of the store.
C5_DeferredWhenShort ==
    call.op = "replay" =>
        /\ ~call.error
        /\ call.deferred <=> Len(call.before.memory) < batch_size
        /\ call.deferred => AgentState = call.before
        /\ ~call.deferred =>
               /\ Len(call.sample) = batch_size
               /\ Len(call.log) = batch_size
               /\ batch_size <= Len(memory)
               /\ \A i \in 1 .. batch_size :
                      /\ call.sample[i] \in 1 .. Len(memory)
                      /\ call.log[i].tr = memory[call.sample[i]]
                      /\ \A j \in 1 .. batch_size :
                             i # j => call.sample[i] # call.sample[j]

\* replay was called on a store that is not empty and too short.
C5_Witness ==
    /\ call.op = "replay"
    /\ call.deferred
    /\ memory # <<>>

\* C6: for a sampled transition with done = true, the target at index action
\* is the reward, and every other index is the online model's prediction for
\* state at that moment.
C6_TerminalTarget ==
    Learned =>
        \A i \in DOMAIN call.log :
            LET en == call.log[i] IN
            en.tr.done =>
                /\ en.target[en.tr.action] = en.tr.reward * 100000
                /\ \A a \in Actions \ {en.tr.action} :
                       en.target[a] = en.before[en.tr.state][a]

\* A terminal transition was replayed whose bootstrapped value would not
\* have been zero.
C6_Witness ==
    /\ Learned
    /\ \E i \in DOMAIN call.log :
           LET en == call.log[i] IN
           /\ en.tr.done
           /\ \E a \in Actions : call.before.target_model[en.tr.next_state][a] # 0

\* C7: act returns an action of the range; when the draw r is above epsilon
\* it returns the first maximal index of the online model at state; and it
\* leaves epsilon, the store and both models as they were.
C7_Act ==
    call.op = "act" =>
        /\ call.ret \in 0 .. (action_size - 1)
        /\ call.r > epsilon => IsFirstMax(eval_model[call.state], call.ret)
        /\ AgentState = call.before

\* act exploited on a tie of the online model, after epsilon had decayed.
C7_Witness ==
    /\ call.op = "act"
    /\ call.r > epsilon
    /\ \A a \in Actions : eval_model[call.state][a] = eval_model[call.state][0]

\* C9: a replay that learns processes its batch_size transitions one at a
\* time: each target is computed with the online model the previous update
\* left, the online model ends as the last update leaves it, and epsilon is
\* decayed once, from the value the call started with.
C9_SequentialUpdates ==
    Learned =>
        LET log == call.log IN
        /\ Len(log) = batch_size
        /\ log[1].before = call.before.eval_model
        /\ \A i \in 1 .. Len(log) :
               /\ log[i].target = TdTarget(log[i].before, call.before.target_model, log[i].tr)
               /\ AdamStep(log[i].before, log[i].tr.state, log[i].target) =
                      IF i < Len(log) THEN log[i + 1].before ELSE eval_model
        /\ epsilon = Decay(call.before.epsilon)

\* The first update of a replay changed the target of a later transition of
\* the same call.
C9_Witness ==
    /\ Learned
    /\ \E i \in 2 .. Len(call.log) :
           call.log[i].target #
               TdTarget(call.before.eval_model, call.before.target_model, call.log[i].tr)

----------------------------------------------------------------------------
\* C3: after n replay calls that learn, epsilon is
\* max(epsilon_min, epsilon_init * epsilon_decay^n), and it is never below
\* epsilon_min.  decay_pow holds epsilon_init * epsilon_decay^ndecay.
C3_EpsilonClamped ==
    /\ epsilon >= epsilon_min
    /\ epsilon = IF decay_pow > epsilon_min THEN decay_pow ELSE epsilon_min

----------------------------------------------------------------------------
\* C8: update_target_model is called at the end of episode k exactly when
\* k mod sync_every = 0, after that episode's replay call, and the target
\* model then equals the online model.
C8_SyncCadence ==
    /\ sync_eps = { k \in 0 .. e : /\ k % sync_every = 0
                                   /\ (k < e \/ pc \in {"check", "done"}) }
    /\ is_training => sync_eps \subseteq replay_eps
    /\ replay_eps \subseteq 0 .. e
    /\ (pc = "check" /\ e % sync_every = 0) => target_model = eval_model

\* A training run went through all its episodes, learned, and synchronised
\* at the end of some episodes and not of others.
C8_Witness ==
    /\ pc = "done"
    /\ is_training
    /\ e = episodes - 1
    /\ epsilon < epsilon_init
    /\ Cardinality(sync_eps) >= 2
    /\ Cardinality(sync_eps) < e + 1

\* The mean of the last (up to window) returns of rs exceeds solved_mean.
MeanExceeds(rs) ==
    SeqSum(LastN(rs, window)) > solved_mean * Len(LastN(rs, window))

\* What holds of the driver in every state: an episode is left only on
\* done = true, a truncated step that is not done leaves the loop running and
\* is stored with done = false, and the loop goes on exactly while there are
\* episodes left and no episode has ended with the mean above solved_mean.
C10_Safe ==
    /\ pc \in {"replay", "sync", "check", "done"} => done
    /\ (pc = "step" /\ steps >= 1) => ~done
    /\ (steps >= 1 /\ truncated /\ ~done) =>
           /\ pc = "step"
           /\ ~memory[Len(memory)].done
    /\ (pc # "reset" /\ steps >= 1) => memory[Len(memory)].done = done
    /\ e \in 0 .. (episodes - 1)
    /\ Len(rewards_per_episode) = e + (IF pc \in {"reset", "step"} THEN 0 ELSE 1)
    /\ \A n \in 1 .. Len(rewards_per_episode) :
           MeanExceeds(SubSeq(rewards_per_episode, 1, n)) =>
               /\ n = Len(rewards_per_episode)
               /\ pc \in {"replay", "sync", "check", "done"}
    /\ pc = "done" => (MeanExceeds(rewards_per_episode) \/ e = episodes - 1)

\* The driver's progress: the episode, then the place within it.
Progress ==
    e * (MaxSteps + 6) +
        CASE pc = "reset" -> 0
          [] pc = "step" -> 1 + steps
          [] pc = "replay" -> MaxSteps + 2
          [] pc = "sync" -> MaxSteps + 3
          [] pc = "check" -> MaxSteps + 4
          [] pc = "done" -> MaxSteps + 5

\* C10: an episode ends only on done = true (a truncated flag ends nothing
\* and is stored as done = false); the loop runs at most `episodes` episodes,
\* stops right after the first episode at whose end the mean of the last
\* returns exceeds solved_mean, and, every episode receiving done = true,
\* it terminates: every step raises the driver's progress, and the driver,
\* which never waits, reaches the end of run_ddqn's loop.
C10_Terminates ==
    /\ []C10_Safe
    /\ [][Progress' > Progress]_vars
    /\ <>(pc = "done")

\* The loop stopped before its last episode, after a truncated step that
\* did not end its episode.
C10_Witness ==
    /\ pc = "done"
    /\ e >= 1
    /\ e < episodes - 1
    /\ truncated_on

====
